---- MODULE Spec2Model ----
(***************************************************************************)
(* Model of the dream tag index (src/src/lib.rs): the five tables kept by  *)
(* a write transaction, the write operations insert, remove_object and     *)
(* remove_tags_from_object, the read primitives and the three search       *)
(* strategies.                                                             *)
(***************************************************************************)
EXTENDS Integers, Naturals, Sequences, FiniteSets, TLC

VARIABLES tag_and_object, object_and_tag, id_to_source,
          tag_to_objects_count, object_to_tags_count,
          overflow_checks, last, search_iterator, raw_origin, lock

tables == <<tag_and_object, object_and_tag, id_to_source,
            tag_to_objects_count, object_to_tags_count>>

vars == <<tag_and_object, object_and_tag, id_to_source,
          tag_to_objects_count, object_to_tags_count, overflow_checks, last,
          search_iterator, raw_origin, lock>>

----------------------------------------------------------------------------
(* Bounds *)

NumIds == 3
NumObjects == 2
NumTags == 2
NumRaws == 1
MaxTags == 2
MaxCount == 2
MaxPresent == 2
MaxAbsent == 1
MaxNones == 1
MaxReaders == 2
LeapObjects == 3
LeapTags == 3
LeapMaxPresent == 3

----------------------------------------------------------------------------
(* Identifiers and objects *)

Ids == 0 .. (NumIds - 1)

\* the byte strings that occur as raw objects
Raws == 0 .. (NumRaws - 1)

IdDefault == 0

\* the content hash: injective on the modelled byte strings, not the identity
xxh3_128(raw) == (raw + 1) % NumIds

Raw(raw) == [kind |-> "Raw", val |-> raw]

Identified(id) == [kind |-> "Identified", val |-> id]

Objects == {Raw(r) : r \in Raws} \cup {Identified(i) : i \in Ids}

\* the IDs used in the object role (the lowest) and in the tag role (the
\* highest); the two ranges overlap, objects and tags share one ID space
ObjectIds == 0 .. (NumObjects - 1)

TagIds == (NumIds - NumTags) .. (NumIds - 1)

get_id(object) == IF object.kind = "Raw" THEN xxh3_128(object.val) ELSE object.val

----------------------------------------------------------------------------
(* The store's table operations: get, insert (upsert), remove *)

Has(table, key) == key \in DOMAIN table

TableInsert(table, key, value) ==
    [k \in (DOMAIN table) \cup {key} |-> IF k = key THEN value ELSE table[k]]

TableRemove(table, key) == [k \in (DOMAIN table) \ {key} |-> table[k]]

EmptyTable == [k \in {} |-> 0]

\* the five tables as one value
DB == [tag_and_object |-> tag_and_object,
       object_and_tag |-> object_and_tag,
       id_to_source |-> id_to_source,
       tag_to_objects_count |-> tag_to_objects_count,
       object_to_tags_count |-> object_to_tags_count]

\* ascending sequence of the elements of a finite set of integers
RECURSIVE SortedSeq(_)
SortedSeq(S) ==
    IF S = {} THEN <<>>
    ELSE LET m == CHOOSE x \in S : \A y \in S : x <= y
         IN <<m>> \o SortedSeq(S \ {m})

SeqToSet(s) == {s[i] : i \in 1 .. Len(s)}

----------------------------------------------------------------------------
(* Read primitives *)

get_source(db, id) ==
    IF Has(db.id_to_source, id) THEN {Raw(db.id_to_source[id])} ELSE {}

HasTagSwappedKey(db, object, tag) ==
    <<get_id(tag), get_id(object)>> \in db.object_and_tag

has_tag(db, object, tag) == <<get_id(object), get_id(tag)>> \in db.object_and_tag

has_object_with_tag(db, tag) ==
    \E key \in db.tag_and_object : key[1] = get_id(tag) /\ key[2] >= IdDefault

\* prefix scan of object_and_tag from (object_id, 0..0) while the leading
\* component is object_id
get_tags(db, object) ==
    SortedSeq({key[2] : key \in {k \in db.object_and_tag :
                                   k[1] = get_id(object) /\ k[2] >= IdDefault}})

----------------------------------------------------------------------------
(* Write path *)

\* u32 arithmetic.  A u32 value v is held as the 32-bit two's complement
\* integer with the same bit pattern: v itself below 2^31, v - 2^32 from
\* there on (so 4294967295 is held as -1), and sums and differences of held
\* values are the held values of the sums and differences modulo 2^32.
\* An out-of-range result panics when the build checks overflow and wraps
\* otherwise.
U32Less(a, b) == IF (a < 0) = (b < 0) THEN a < b ELSE b < 0

U32AddOverflows(a, b) ==
    \/ a < 0 /\ b < 0
    \/ (a < 0) # (b < 0) /\ a + b >= 0

U32SubOverflows(a, b) == U32Less(a, b)

\* the two posting tables are edited together
InsertPostings(db, tag_id, object_id) ==
    [db EXCEPT !.tag_and_object = @ \cup {<<tag_id, object_id>>},
               !.object_and_tag = @ \cup {<<object_id, tag_id>>}]

RemovePostingsOneTable(db, tag_id, object_id) ==
    [db EXCEPT !.tag_and_object = @ \ {<<tag_id, object_id>>}]

RemovePostings(db, tag_id, object_id) ==
    [db EXCEPT !.tag_and_object = @ \ {<<tag_id, object_id>>},
               !.object_and_tag = @ \ {<<object_id, tag_id>>}]

RECURSIVE InsertLoop(_, _, _, _, _, _)
InsertLoop(db, object_id, existent_tags, tags, i, tags_added) ==
    IF i > Len(tags)
    THEN [db |-> db, tags_added |-> tags_added, result |-> "Ok"]
    ELSE LET tag == tags[i]
             tag_id == get_id(tag)
         IN IF tag_id \in existent_tags
            THEN InsertLoop(db, object_id, existent_tags, tags, i + 1, tags_added)
            ELSE LET old == IF Has(db.tag_to_objects_count, tag_id)
                            THEN db.tag_to_objects_count[tag_id] ELSE 0
                     new_tag_objects_count == old + 1
                     db1 == [InsertPostings(db, tag_id, object_id) EXCEPT
                               !.id_to_source =
                                   IF tag.kind = "Raw"
                                   THEN TableInsert(@, tag_id, tag.val) ELSE @]
                 IN IF U32AddOverflows(old, 1) /\ overflow_checks
                    THEN [db |-> db1, tags_added |-> tags_added, result |-> "Panic"]
                    ELSE InsertLoop(
                           [db1 EXCEPT !.tag_to_objects_count =
                               TableInsert(@, tag_id, new_tag_objects_count)],
                           object_id, existent_tags, tags, i + 1, tags_added + 1)

InsertCountAddedOnly(loop, object_id, existent_tags) ==
    IF loop.result # "Ok"
    THEN [db |-> loop.db, result |-> loop.result]
    ELSE [db |-> [loop.db EXCEPT !.object_to_tags_count =
                     TableInsert(@, object_id, loop.tags_added)],
          result |-> "Ok"]

\* the end of insert: the object's count is existent_tags.len() + tags_added
InsertCount(loop, object_id, existent_tags) ==
    IF loop.result # "Ok"
    THEN [db |-> loop.db, result |-> loop.result]
    ELSE [db |-> [loop.db EXCEPT !.object_to_tags_count =
                     TableInsert(@, object_id,
                                 Cardinality(existent_tags) + loop.tags_added)],
          result |-> "Ok"]

\* insert from the snapshot existent_tags on
InsertTags(db, object_id, existent_tags, tags) ==
    InsertCount(InsertLoop(db, object_id, existent_tags, tags, 1, 0),
                object_id, existent_tags)

\* insert once the object's source is stored
InsertKnown(db, object, tags) ==
    InsertTags(db, get_id(object), SeqToSet(get_tags(db, object)), tags)

insert(db, object, tags) ==
    InsertKnown(IF object.kind = "Raw"
                THEN [db EXCEPT !.id_to_source =
                                    TableInsert(@, get_id(object), object.val)]
                ELSE db,
                object, tags)

RECURSIVE RemoveObjectLoop(_, _, _)
RemoveObjectLoop(db, keys, i) ==
    IF i > Len(keys)
    THEN [db |-> db, result |-> "Ok"]
    ELSE LET current_object_id == keys[i][1]
             current_tag_id == keys[i][2]
             old == IF Has(db.tag_to_objects_count, current_tag_id)
                    THEN db.tag_to_objects_count[current_tag_id] ELSE 0
             new_tag_objects_count == old - 1
             db1 == RemovePostings(db, current_tag_id, current_object_id)
         IN IF U32SubOverflows(old, 1) /\ overflow_checks
            THEN [db |-> db1, result |-> "Panic"]
            ELSE RemoveObjectLoop(
                   [db1 EXCEPT !.tag_to_objects_count =
                       TableInsert(@, current_tag_id, new_tag_objects_count)],
                   keys, i + 1)

RemoveObjectCountKept(loop, object_id) == loop

\* the end of remove_object: the object's count record is erased
RemoveObjectCount(loop, object_id) ==
    IF loop.result # "Ok"
    THEN loop
    ELSE [db |-> [loop.db EXCEPT !.object_to_tags_count = TableRemove(@, object_id)],
          result |-> "Ok"]

RemoveObjectKeysSwapped(object_id, tag_ids) ==
    [j \in 1 .. Len(tag_ids) |-> <<tag_ids[j], object_id>>]

\* the prefix scan of object_and_tag, collected before the loop
RemoveObjectKeys(object_id, tag_ids) ==
    [j \in 1 .. Len(tag_ids) |-> <<object_id, tag_ids[j]>>]

\* remove_object once the object's source is erased
RemoveObjectKnown(db, object) ==
    RemoveObjectCount(
        RemoveObjectLoop(db, RemoveObjectKeys(get_id(object), get_tags(db, object)), 1),
        get_id(object))

RemoveObjectUnguarded(db, object) ==
    RemoveObjectKnown(IF object.kind = "Raw"
                      THEN [db EXCEPT !.id_to_source =
                                          TableRemove(@, get_id(object))]
                      ELSE db,
                      object)

remove_object(db, object) ==
    IF ~Has(db.object_to_tags_count, get_id(object))
    THEN [db |-> db, result |-> "Ok"]
    ELSE RemoveObjectKnown(IF object.kind = "Raw"
                           THEN [db EXCEPT !.id_to_source =
                                               TableRemove(@, get_id(object))]
                           ELSE db,
                           object)

RECURSIVE RemoveTagsLoop(_, _, _, _, _, _)
RemoveTagsLoop(db, object_id, tags_before_remove, tags, i, tags_removed_from_object) ==
    IF i > Len(tags)
    THEN [db |-> db, tags_removed_from_object |-> tags_removed_from_object,
          result |-> "Ok"]
    ELSE LET tag == tags[i]
             tag_id == get_id(tag)
         IN IF tag_id \notin tags_before_remove
            THEN RemoveTagsLoop(db, object_id, tags_before_remove, tags, i + 1,
                                tags_removed_from_object)
            ELSE LET db1 == RemovePostings(db, tag_id, object_id)
                 IN IF ~Has(db1.tag_to_objects_count, tag_id)
                    THEN [db |-> db1,
                          tags_removed_from_object |-> tags_removed_from_object,
                          result |-> "Err"]
                    ELSE LET new_tag_objects_count ==
                                 db1.tag_to_objects_count[tag_id] - 1
                         IN IF U32SubOverflows(db1.tag_to_objects_count[tag_id], 1)
                               /\ overflow_checks
                            THEN [db |-> db1,
                                  tags_removed_from_object |-> tags_removed_from_object,
                                  result |-> "Panic"]
                            ELSE LET db2 ==
                                       IF U32Less(0, new_tag_objects_count)
                                       THEN [db1 EXCEPT !.tag_to_objects_count =
                                               TableInsert(@, tag_id,
                                                           new_tag_objects_count)]
                                       ELSE [db1 EXCEPT
                                               !.tag_to_objects_count =
                                                   TableRemove(@, tag_id),
                                               !.id_to_source =
                                                   IF tag.kind = "Raw"
                                                   THEN TableRemove(@, tag_id) ELSE @]
                                 IN RemoveTagsLoop(db2, object_id, tags_before_remove,
                                                   tags, i + 1,
                                                   tags_removed_from_object + 1)

\* the end of remove_tags_from_object: the object's count is erased or
\* rewritten as tags_before_remove.len() - tags_removed_from_object
RemoveTagsCount(loop, object, tags_before_remove) ==
    IF loop.result # "Ok"
    THEN [db |-> loop.db, result |-> loop.result]
    ELSE IF loop.tags_removed_from_object = Cardinality(tags_before_remove)
    THEN [db |-> [loop.db EXCEPT
                    !.object_to_tags_count = TableRemove(@, get_id(object)),
                    !.id_to_source =
                        IF object.kind = "Raw"
                        THEN TableRemove(@, get_id(object)) ELSE @],
          result |-> "Ok"]
    ELSE IF U32SubOverflows(Cardinality(tags_before_remove),
                            loop.tags_removed_from_object)
            /\ overflow_checks
    THEN [db |-> loop.db, result |-> "Panic"]
    ELSE [db |-> [loop.db EXCEPT !.object_to_tags_count =
                     TableInsert(@, get_id(object),
                                 Cardinality(tags_before_remove)
                                   - loop.tags_removed_from_object)],
          result |-> "Ok"]

\* remove_tags_from_object from the snapshot tags_before_remove on
RemoveTagsKnown(db, object, tags_before_remove, tags) ==
    RemoveTagsCount(
        RemoveTagsLoop(db, get_id(object), tags_before_remove, tags, 1, 0),
        object, tags_before_remove)

remove_tags_from_object(db, object, tags) ==
    IF ~Has(db.object_to_tags_count, get_id(object))
    THEN [db |-> db, result |-> "Ok"]
    ELSE RemoveTagsKnown(db, object, SeqToSet(get_tags(db, object)), tags)

----------------------------------------------------------------------------
(* The store's ordered iteration: iter(Bound::Included(lower), false) *)

None == <<>>

Some(x) == <<x>>

\* tuple-lexicographic order of the composite keys
KeyLess(a, b) == a[1] < b[1] \/ (a[1] = b[1] /\ a[2] < b[2])

\* an iterator is the bound of what it has still to yield
IterFrom(lower) == [lo |-> lower, incl |-> TRUE]

PairsLeft(keys, iterator) ==
    {k \in keys : KeyLess(iterator.lo, k) \/ (iterator.incl /\ k = iterator.lo)}

\* the iterator after it yielded k
IterYield(k) == [iterator |-> [lo |-> k, incl |-> FALSE], value |-> Some(k)]

FirstPair(left) == CHOOSE x \in left : \A y \in left : x = y \/ KeyLess(x, y)

PairIterStep(iterator, left) ==
    IF left = {}
    THEN [iterator |-> iterator, value |-> None]
    ELSE IterYield(FirstPair(left))

PairIterNext(keys, iterator) == PairIterStep(iterator, PairsLeft(keys, iterator))

IdsLeft(keys, iterator) ==
    {k \in keys : iterator.lo < k \/ (iterator.incl /\ k = iterator.lo)}

FirstId(left) == CHOOSE x \in left : \A y \in left : x <= y

IdIterStep(iterator, left) ==
    IF left = {}
    THEN [iterator |-> iterator, value |-> None]
    ELSE IterYield(FirstId(left))

IdIterNext(keys, iterator) == IdIterStep(iterator, IdsLeft(keys, iterator))

----------------------------------------------------------------------------
(* Query planner *)

\* Vec::sort_by_key: a stable sort of (id, count) pairs, ascending by count
InsertAt(sorted, x, at) ==
    SubSeq(sorted, 1, at) \o <<x>> \o SubSeq(sorted, at + 1, Len(sorted))

LastOf(before) ==
    IF before = {} THEN 0 ELSE CHOOSE j \in before : \A h \in before : h <= j

\* x goes after every element whose count is not greater
InsertSorted(sorted, x) ==
    InsertAt(sorted, x,
             LastOf({j \in 1 .. Len(sorted) : ~U32Less(x[2], sorted[j][2])}))

RECURSIVE SortByCount(_)
SortByCount(pairs) ==
    IF Len(pairs) <= 1 THEN pairs
    ELSE InsertSorted(SortByCount(SubSeq(pairs, 1, Len(pairs) - 1)),
                      pairs[Len(pairs)])

Reverse(s) == [j \in 1 .. Len(s) |-> s[Len(s) + 1 - j]]

RECURSIVE AbsentWithCount(_, _)
AbsentWithCount(db, absent_tags) ==
    IF absent_tags = <<>> THEN <<>>
    ELSE LET tag_id == get_id(Head(absent_tags))
             rest == AbsentWithCount(db, Tail(absent_tags))
         IN IF Has(db.tag_to_objects_count, tag_id)
            THEN <<<<tag_id, db.tag_to_objects_count[tag_id]>>>> \o rest
            ELSE rest

\* .map(|(tag_id, _)| tag_id)
TagIdsOf(ordered) == [j \in 1 .. Len(ordered) |-> ordered[j][1]]

PlanAbsent(db, absent_tags) ==
    TagIdsOf(Reverse(SortByCount(AbsentWithCount(db, absent_tags))))

\* a present tag without a count record counts as 0
PresentWithCount(db, present_tags) ==
    [j \in 1 .. Len(present_tags) |->
        <<get_id(present_tags[j]),
          IF Has(db.tag_to_objects_count, get_id(present_tags[j]))
          THEN db.tag_to_objects_count[get_id(present_tags[j])] ELSE 0>>]

PlanPresent(db, present_tags) ==
    TagIdsOf(SortByCount(PresentWithCount(db, present_tags)))

----------------------------------------------------------------------------
(* Search executor *)

\* the search sequence held by the caller: the fields of the iterator, with
\* the absent tags as passed to search and what the calls of next() returned
\* so far (yielded before the first none, late after it, nones)
NoIterator ==
    [strategy |-> "none", present_tags_ids |-> <<>>, absent_tags_ids |-> <<>>,
     start_after_object |-> None, iterator |-> IterFrom(IdDefault), skip |-> 0,
     done |-> FALSE, cursors |-> <<>>, index_1 |-> 0, index_2 |-> 1, end |-> FALSE,
     absent_tags |-> <<>>, yielded |-> <<>>, nones |-> 0, late |-> <<>>]

UnwrapOrDefault(option) == IF option = None THEN IdDefault ELSE option[1]

search(db, present_tags, absent_tags, start_after_object) ==
    LET absent_tags_ids == PlanAbsent(db, absent_tags)
        base == [NoIterator EXCEPT !.absent_tags_ids = absent_tags_ids,
                                   !.absent_tags =
                                       [j \in 1 .. Len(absent_tags) |->
                                           get_id(absent_tags[j])],
                                   !.start_after_object = start_after_object,
                                   !.skip = IF start_after_object # None THEN 1 ELSE 0]
    IN IF Len(present_tags) = 0
       THEN [base EXCEPT !.strategy = "all",
                         !.iterator = IterFrom(UnwrapOrDefault(start_after_object))]
       ELSE IF Len(present_tags) = 1
       THEN [base EXCEPT !.strategy = "one",
                         !.present_tags_ids = <<get_id(present_tags[1])>>,
                         !.iterator = IterFrom(<<get_id(present_tags[1]),
                                                 UnwrapOrDefault(start_after_object)>>)]
       ELSE [base EXCEPT !.strategy = "many",
                         !.present_tags_ids = PlanPresent(db, present_tags),
                         !.skip = 0]

AbsentFilterSwappedKey(db, absent_tags_ids, object_id) ==
    \A j \in 1 .. Len(absent_tags_ids) :
        <<object_id, absent_tags_ids[j]>> \notin db.tag_and_object

\* the absent filter: no planned absent tag has a posting for the candidate
AbsentFilter(db, absent_tags_ids, object_id) ==
    \A j \in 1 .. Len(absent_tags_ids) :
        <<absent_tags_ids[j], object_id>> \notin db.tag_and_object

\* what a call of next() returns: the iterator it leaves, the item, and
\* whether the call returned or panicked
Finish(it, result) == [it |-> it, result |-> result, status |-> "Ok"]

Panicked(it) == [it |-> it, result |-> None, status |-> "Panic"]

\* the loop of SearchIterator::next goes round again
Continue(it) == [it |-> it, result |-> None, status |-> "Continue"]

\* |present| = 0: object_to_tags_count.iter().skip().map().filter()
RECURSIVE NextAll(_, _)
NextAllStep(db, it, step) ==
    IF step.value = None
    THEN Finish([it EXCEPT !.iterator = step.iterator, !.skip = 0], None)
    ELSE IF it.skip > 0
    THEN NextAll(db, [it EXCEPT !.iterator = step.iterator, !.skip = @ - 1])
    ELSE IF AbsentFilter(db, it.absent_tags_ids, step.value[1])
    THEN Finish([it EXCEPT !.iterator = step.iterator], Some(step.value[1]))
    ELSE NextAll(db, [it EXCEPT !.iterator = step.iterator])

NextAll(db, it) ==
    NextAllStep(db, it, IdIterNext(DOMAIN db.object_to_tags_count, it.iterator))

\* |present| = 1: tag_and_object.iter().skip().map().take_while().map().filter()
RECURSIVE NextOne(_, _)
NextOneStepAnyTag(db, it, step) ==
    IF step.value = None
    THEN Finish([it EXCEPT !.iterator = step.iterator, !.skip = 0], None)
    ELSE IF it.skip > 0
    THEN NextOne(db, [it EXCEPT !.iterator = step.iterator, !.skip = @ - 1])
    ELSE IF AbsentFilter(db, it.absent_tags_ids, step.value[1][2])
    THEN Finish([it EXCEPT !.iterator = step.iterator], Some(step.value[1][2]))
    ELSE NextOne(db, [it EXCEPT !.iterator = step.iterator])

NextOneStep(db, it, step) ==
    IF step.value = None
    THEN Finish([it EXCEPT !.iterator = step.iterator, !.skip = 0], None)
    ELSE IF it.skip > 0
    THEN NextOne(db, [it EXCEPT !.iterator = step.iterator, !.skip = @ - 1])
    ELSE IF step.value[1][1] # it.present_tags_ids[1]
    THEN Finish([it EXCEPT !.iterator = step.iterator, !.done = TRUE], None)
    ELSE IF AbsentFilter(db, it.absent_tags_ids, step.value[1][2])
    THEN Finish([it EXCEPT !.iterator = step.iterator], Some(step.value[1][2]))
    ELSE NextOne(db, [it EXCEPT !.iterator = step.iterator])

NextOne(db, it) ==
    IF it.done
    THEN Finish(it, None)
    ELSE NextOneStep(db, it, PairIterNext(db.tag_and_object, it.iterator))

\* Cursor::new and Cursor::next
CursorAt(step) == [iterator |-> step.iterator, current_value |-> step.value]

CursorNew(db, from_tag_and_object) ==
    CursorAt(PairIterNext(db.tag_and_object, IterFrom(from_tag_and_object)))

CursorNext(db, cursor) == CursorAt(PairIterNext(db.tag_and_object, cursor.iterator))

InPrefixOfAnyTag(cursor, tag_id) == cursor.current_value # None

\* current_value.is_some_and(|value| value.0 == tag_id)
InPrefix(cursor, tag_id) ==
    cursor.current_value # None /\ cursor.current_value[1][1] = tag_id

\* the loops `while cursor.object < bound { cursor.next(); if left prefix: end }`
RECURSIVE AdvanceWhileLess(_, _, _, _)
AdvanceMoved(db, moved, tag_id, bound) ==
    IF ~InPrefix(moved, tag_id)
    THEN [cursor |-> moved, status |-> "End"]
    ELSE AdvanceWhileLess(db, moved, tag_id, bound)

AdvanceWhileLess(db, cursor, tag_id, bound) ==
    IF cursor.current_value = None
    THEN [cursor |-> cursor, status |-> "Panic"]
    ELSE IF ~(cursor.current_value[1][2] < bound)
    THEN [cursor |-> cursor, status |-> "Ok"]
    ELSE AdvanceMoved(db, CursorNext(db, cursor), tag_id, bound)

LastCursorObject(it) == it.cursors[Len(it.cursors)].current_value[1][2]

LastCursorMissing(it) ==
    it.cursors = <<>> \/ it.cursors[Len(it.cursors)].current_value = None

\* every cursor is on the object of the first one
AllCoincide(cursors) ==
    \A j \in 1 .. Len(cursors) :
        /\ cursors[j].current_value # None
        /\ cursors[j].current_value[1][2] = cursors[1].current_value[1][2]

\* self.end = true; return Ok(None)
Ended(it) == Finish([it EXCEPT !.end = TRUE], None)

\* present_tags_ids, cursors, index_1 and index_2 count from 0 as in the source
PresentTag(it, j) == it.present_tags_ids[j + 1]

CursorObject(it, j) == it.cursors[j + 1].current_value[1][2]

\* |present| >= 2: SearchIterator::next, one iteration of its loop per use
\* of Iteration

\* the catch-up loop has run on the first cursor: restart from the first pair
CaughtUp(db, it, caught) ==
    IF caught.status = "Panic"
    THEN Panicked([it EXCEPT !.cursors[1] = caught.cursor])
    ELSE IF caught.status = "End"
    THEN Ended([it EXCEPT !.cursors[1] = caught.cursor])
    ELSE Continue([it EXCEPT !.cursors[1] = caught.cursor,
                             !.index_1 = 0, !.index_2 = 1])

CompareWithoutRotation(db, it) ==
    IF CursorObject(it, it.index_2) = CursorObject(it, it.index_1)
    THEN Continue([it EXCEPT !.index_1 = 0, !.index_2 = 1])
    ELSE CaughtUp(db, it,
                  AdvanceWhileLess(db, it.cursors[1], PresentTag(it, 0),
                                   CursorObject(it, it.index_2)))

\* the cursors of index_1 and index_2 after the alignment loop: rotate the
\* pair when they agree, else bring the first cursor up to the one of index_2
Compare(db, it) ==
    IF CursorObject(it, it.index_2) = CursorObject(it, it.index_1)
    THEN Continue([it EXCEPT
                     !.index_1 = (it.index_1 + 1) % Len(it.present_tags_ids),
                     !.index_2 = (it.index_2 + 1) % Len(it.present_tags_ids)])
    ELSE CaughtUp(db, it,
                  AdvanceWhileLess(db, it.cursors[1], PresentTag(it, 0),
                                   CursorObject(it, it.index_2)))

\* the alignment loop has run on the cursor of index_2
Aligned(db, it, aligned) ==
    IF aligned.status = "Panic"
    THEN Panicked([it EXCEPT !.cursors[it.index_2 + 1] = aligned.cursor])
    ELSE IF aligned.status = "End"
    THEN Ended([it EXCEPT !.cursors[it.index_2 + 1] = aligned.cursor])
    ELSE Compare(db, [it EXCEPT !.cursors[it.index_2 + 1] = aligned.cursor])

\* alignment: bring the cursor of index_2 up to the one of index_1
Align(db, it) ==
    IF \/ it.index_1 + 1 > Len(it.cursors) \/ it.index_2 + 1 > Len(it.cursors)
       \/ it.cursors[it.index_1 + 1].current_value = None
    THEN Panicked(it)
    ELSE Aligned(db, it,
                 AdvanceWhileLess(db, it.cursors[it.index_2 + 1],
                                  PresentTag(it, it.index_2),
                                  CursorObject(it, it.index_1)))

PushSecondUnchecked(db, it, cursor) ==
    Align(db, [it EXCEPT !.cursors = Append(@, cursor)])

\* a cursor is pushed unless it starts outside its tag's prefix
PushSecond(db, it, cursor) ==
    IF ~InPrefix(cursor, PresentTag(it, it.index_2))
    THEN Ended(it)
    ELSE Align(db, [it EXCEPT !.cursors = Append(@, cursor)])

\* second cursor to create: the one of index_2, from the last cursor's object
CreateSecond(db, it) ==
    IF ~(Len(it.cursors) < Len(it.present_tags_ids)
         /\ Len(it.cursors) <= it.index_2)
    THEN Align(db, it)
    ELSE IF LastCursorMissing(it)
    THEN Panicked(it)
    ELSE PushSecond(db, it,
                    CursorNew(db, <<PresentTag(it, it.index_2),
                                    LastCursorObject(it)>>))

PushFirst(db, it, cursor) ==
    IF ~InPrefix(cursor, PresentTag(it, it.index_1))
    THEN Ended(it)
    ELSE CreateSecond(db, [it EXCEPT !.cursors = Append(@, cursor)])

SkipStartAfterNever(db, it, cursor) == cursor

\* the cursor of index 0 starts at start_after_object and steps over its
\* first entry when start_after_object is given
SkipStartAfter(db, it, cursor) ==
    IF it.index_1 = 0 /\ it.start_after_object # None
    THEN CursorNext(db, cursor) ELSE cursor

\* first cursor to create: the one of index_1
CreateFirst(db, it) ==
    IF ~(Len(it.cursors) < Len(it.present_tags_ids)
         /\ Len(it.cursors) <= it.index_1)
    THEN CreateSecond(db, it)
    ELSE IF it.index_1 # 0 /\ LastCursorMissing(it)
    THEN Panicked(it)
    ELSE PushFirst(db, it,
                   SkipStartAfter(db, it,
                       CursorNew(db, <<PresentTag(it, it.index_1),
                                       IF it.index_1 = 0
                                       THEN UnwrapOrDefault(it.start_after_object)
                                       ELSE LastCursorObject(it)>>)))

EmitWithoutMoving(db, it, result, moved) ==
    Finish([it EXCEPT !.end = ~InPrefix(moved, PresentTag(it, 0))], result)

\* every cursor is on one object: it is the item unless the absent filter
\* rejects it, and the first cursor moves on
Emit(db, it, result, moved) ==
    Finish([it EXCEPT !.cursors[1] = moved,
                      !.end = ~InPrefix(moved, PresentTag(it, 0))],
           result)

\* one iteration of the loop: it returns, or goes round
Iteration(db, it) ==
    IF Len(it.cursors) = Len(it.present_tags_ids)
       /\ it.cursors[1].current_value = None
    THEN Panicked(it)
    ELSE IF Len(it.cursors) = Len(it.present_tags_ids) /\ AllCoincide(it.cursors)
    THEN Emit(db, it,
              IF AbsentFilter(db, it.absent_tags_ids, CursorObject(it, 0))
              THEN Some(CursorObject(it, 0)) ELSE None,
              CursorNext(db, it.cursors[1]))
    ELSE CreateFirst(db, it)

RECURSIVE NextLoop(_, _)
Looped(db, r) == IF r.status = "Continue" THEN NextLoop(db, r.it) ELSE r

NextLoop(db, it) == Looped(db, Iteration(db, it))

NextMany(db, it) == IF it.end THEN Finish(it, None) ELSE NextLoop(db, it)

\* one call of next() on the sequence returned by search
next(db, it) ==
    IF it.strategy = "all" THEN NextAll(db, it)
    ELSE IF it.strategy = "one" THEN NextOne(db, it)
    ELSE NextMany(db, it)

\* a caller's collect(): the IDs the sequence yields up to its first none
\* (or up to the call that panics)
RECURSIVE Collect(_, _)
Collected(db, r) ==
    IF r.status # "Ok" \/ r.result = None
    THEN <<>>
    ELSE <<r.result[1]>> \o Collect(db, r.it)

Collect(db, it) == Collected(db, next(db, it))

----------------------------------------------------------------------------
(* Inputs *)

RECURSIVE SeqsUpTo(_, _)
SeqsUpTo(S, n) ==
    IF n = 0 THEN {<<>>}
    ELSE LET shorter == SeqsUpTo(S, n - 1)
         IN shorter \cup {Append(s, x) : s \in {t \in shorter : Len(t) = n - 1}, x \in S}

ObjectArgs == {object \in Objects : get_id(object) \in ObjectIds}

TagArgs == {tag \in Objects : get_id(tag) \in TagIds}

TagLists == SeqsUpTo(TagArgs, MaxTags)

\* search arguments: only the IDs of the tags matter to search
SearchTagArgs == {Identified(t) : t \in TagIds}

SearchObjectArgs == {Identified(o) : o \in ObjectIds}

SearchTagLists == SeqsUpTo(SearchTagArgs, MaxTags)

PresentLists == SeqsUpTo(SearchTagArgs, MaxPresent)

AbsentLists == SeqsUpTo(SearchTagArgs, MaxAbsent)

StartAfters == {None} \cup {Some(k) : k \in Ids}

HasRepeat(tags) ==
    \E i, j \in 1 .. Len(tags) : i < j /\ get_id(tags[i]) = get_id(tags[j])

\* counters stay within cap of either end of the u32 range (held values
\* -cap .. cap)
CountCapped(c, cap) == -cap <= c /\ c <= cap

Capped(db, cap) ==
    /\ \A t \in DOMAIN db.tag_to_objects_count :
          CountCapped(db.tag_to_objects_count[t], cap)
    /\ \A o \in DOMAIN db.object_to_tags_count :
          CountCapped(db.object_to_tags_count[o], cap)

\* Inputs of the intersection runs: more tags and objects, each insert adds
\* one identified tag to one identified object
LeapObjectIds == 0 .. (LeapObjects - 1)

LeapTagIds == (LeapObjects - 1) .. (LeapObjects + LeapTags - 2)

LeapObjectArgs == {Identified(o) : o \in LeapObjectIds}

LeapTagArgs == {Identified(t) : t \in LeapTagIds}

LeapTagLists == {<<tag>> : tag \in LeapTagArgs}

LeapPresentLists == {p \in SeqsUpTo(LeapTagArgs, LeapMaxPresent) : Len(p) >= 2}

LeapAbsentLists == SeqsUpTo(LeapTagArgs, MaxAbsent)

LeapStartAfters == {None} \cup {Some(k) : k \in LeapObjectIds}

----------------------------------------------------------------------------
(* The transaction facade: the transaction bodies that are executing on the
   index *)

Unlocked == [writers |-> 0, readers |-> 0]

CanWriteAmongReaders(l) == l.writers = 0

\* lock_all_and_write borrows the index exclusively (&mut self) and takes
\* the store's lock on every operation
CanWrite(l) == l.writers = 0 /\ l.readers = 0

\* lock_all_writes_and_read borrows the index shared (&self) and takes the
\* store's lock on the writes only
CanRead(l) == l.writers = 0

----------------------------------------------------------------------------
(* The state machine: one write transaction's view of the tables, and the
   search sequence the caller holds *)

Init ==
    /\ tag_and_object = {}
    /\ object_and_tag = {}
    /\ id_to_source = EmptyTable
    /\ tag_to_objects_count = EmptyTable
    /\ object_to_tags_count = EmptyTable
    /\ overflow_checks \in BOOLEAN
    /\ last = [op |-> "none", result |-> "Ok"]
    /\ search_iterator = NoIterator
    /\ raw_origin = {}
    /\ lock = Unlocked

\* a known object: it has an object_to_tags_count record
Known(db, x) == Has(db.object_to_tags_count, x)

\* an alive tag: its tag_to_objects_count record is present and nonzero
AliveTag(db, x) == Has(db.tag_to_objects_count, x) /\ db.tag_to_objects_count[x] # 0

InUse(db, x) == Known(db, x) \/ AliveTag(db, x)

\* the IDs an insert call stores in raw form: the object, and the tags it adds
RawsInserted(db, object, tags) ==
    (IF object.kind = "Raw" THEN {get_id(object)} ELSE {})
    \cup {get_id(tags[j]) : j \in {h \in 1 .. Len(tags) :
                 /\ tags[h].kind = "Raw"
                 /\ <<get_id(object), get_id(tags[h])>> \notin db.object_and_tag}}

\* a panic unwinds out of the transaction body: the call never returns
Alive == last.result # "Panic"

\* the sequence returned by search borrows the transaction: no write while
\* search_iterator is held
Idle == search_iterator.strategy = "none"

Apply(r, op, raws) ==
    /\ IF r.result = "Panic"
       THEN UNCHANGED <<tables, raw_origin>>
       ELSE /\ raw_origin' = {x \in raw_origin \cup raws : InUse(r.db, x)}
            /\ tag_and_object' = r.db.tag_and_object
            /\ object_and_tag' = r.db.object_and_tag
            /\ id_to_source' = r.db.id_to_source
            /\ tag_to_objects_count' = r.db.tag_to_objects_count
            /\ object_to_tags_count' = r.db.object_to_tags_count
    /\ last' = [op |-> op, result |-> r.result]
    /\ UNCHANGED <<overflow_checks, search_iterator, lock>>

\* a write whose counters stay within the cap
ApplyCapped(r, op, raws, cap) == Capped(r.db, cap) /\ Apply(r, op, raws)

\* the write operations, for given sets of arguments and a given cap on the
\* counters
InsertOf(objects, tag_lists, cap) ==
    /\ Alive /\ Idle
    /\ \E object \in objects, tags \in tag_lists :
          ApplyCapped(insert(DB, object, tags), "insert",
                      RawsInserted(DB, object, tags), cap)

RemoveObjectOf(objects, cap) ==
    /\ Alive /\ Idle
    /\ \E object \in objects :
          ApplyCapped(remove_object(DB, object), "remove_object", {}, cap)

RemoveTagsFromObjectOf(objects, tag_lists, cap) ==
    /\ Alive /\ Idle
    /\ \E object \in objects, tags \in tag_lists :
          ApplyCapped(remove_tags_from_object(DB, object, tags),
                      "remove_tags_from_object", {}, cap)

Insert == InsertOf(ObjectArgs, TagLists, MaxCount)

RemoveObject == RemoveObjectOf(ObjectArgs, MaxCount)

RemoveTagsFromObject == RemoveTagsFromObjectOf(ObjectArgs, TagLists, MaxCount)

StartSearch(present_tags, absent_tags, start_after_object) ==
    /\ search_iterator' = search(DB, present_tags, absent_tags, start_after_object)
    /\ last' = [op |-> "search", result |-> "Ok"]
    /\ UNCHANGED <<tables, overflow_checks, raw_origin, lock>>

Search ==
    /\ Alive /\ Idle
    /\ \E present_tags \in PresentLists, absent_tags \in AbsentLists,
          start_after_object \in StartAfters :
          StartSearch(present_tags, absent_tags, start_after_object)

\* the caller keeps what the call returned
Returned(r) ==
    /\ search_iterator' = IF r.result = None
                THEN [r.it EXCEPT !.nones = @ + 1]
                ELSE IF search_iterator.nones = 0
                THEN [r.it EXCEPT !.yielded = Append(@, r.result[1])]
                ELSE [r.it EXCEPT !.late = Append(@, r.result[1])]
    /\ last' = [op |-> "next", result |-> r.status]

SearchNext ==
    /\ Alive /\ ~Idle
    /\ search_iterator.nones < MaxNones
    /\ Returned(next(DB, search_iterator))
    /\ UNCHANGED <<tables, overflow_checks, raw_origin, lock>>

Drop ==
    /\ Alive /\ ~Idle
    /\ search_iterator' = NoIterator
    /\ last' = [op |-> "drop", result |-> "Ok"]
    /\ UNCHANGED <<tables, overflow_checks, raw_origin, lock>>

Next == Insert \/ RemoveObject \/ RemoveTagsFromObject

Spec == Init /\ [][Next]_vars

\* the searches run on tables written with identified objects and tags
SearchInsert == InsertOf(SearchObjectArgs, SearchTagLists, MaxCount)

SearchRemoveObject == RemoveObjectOf(SearchObjectArgs, MaxCount)

SearchRemoveTagsFromObject ==
    RemoveTagsFromObjectOf(SearchObjectArgs, SearchTagLists, MaxCount)

SearchNextStep ==
    \/ SearchInsert \/ SearchRemoveObject \/ SearchRemoveTagsFromObject
    \/ Search \/ SearchNext \/ Drop

SearchSpec == Init /\ [][SearchNextStep]_vars

\* the facade: write bodies call the write operations, read bodies only
\* read, and a body ends when its closure returns
LockAllAndWrite ==
    /\ Alive /\ CanWrite(lock)
    /\ lock' = [lock EXCEPT !.writers = @ + 1]
    /\ UNCHANGED <<tables, overflow_checks, last, search_iterator, raw_origin>>

WriteReturns ==
    /\ Alive /\ lock.writers > 0
    /\ lock' = [lock EXCEPT !.writers = @ - 1]
    /\ UNCHANGED <<tables, overflow_checks, last, search_iterator, raw_origin>>

LockAllWritesAndRead ==
    /\ Alive /\ CanRead(lock)
    /\ lock.readers < MaxReaders
    /\ lock' = [lock EXCEPT !.readers = @ + 1]
    /\ UNCHANGED <<tables, overflow_checks, last, search_iterator, raw_origin>>

ReadReturns ==
    /\ Alive /\ lock.readers > 0
    /\ lock' = [lock EXCEPT !.readers = @ - 1]
    /\ UNCHANGED <<tables, overflow_checks, last, search_iterator, raw_origin>>

LockInsert == lock.writers > 0 /\ SearchInsert

LockRemoveObject == lock.writers > 0 /\ SearchRemoveObject

LockRemoveTagsFromObject == lock.writers > 0 /\ SearchRemoveTagsFromObject

LockNext ==
    \/ LockAllAndWrite \/ WriteReturns \/ LockAllWritesAndRead \/ ReadReturns
    \/ LockInsert \/ LockRemoveObject \/ LockRemoveTagsFromObject

LockSpec == Init /\ [][LockNext]_vars

LeapInsert == InsertOf(LeapObjectArgs, LeapTagLists, LeapObjects)

LeapSearch ==
    /\ Alive /\ Idle
    /\ \E present_tags \in LeapPresentLists, absent_tags \in LeapAbsentLists,
          start_after_object \in LeapStartAfters :
          StartSearch(present_tags, absent_tags, start_after_object)

LeapNext == LeapInsert \/ LeapSearch \/ SearchNext \/ Drop

LeapSpec == Init /\ [][LeapNext]_vars

\* the loop of SearchIterator::next one iteration at a time: a call that has
\* not returned is inside its loop
Running == last = [op |-> "next", result |-> "Running"]

\* a call enters the loop unless the end flag is set
NextManyIteration(db, it) ==
    IF it.end THEN Finish(it, None) ELSE Iteration(db, it)

Iterated(r) ==
    IF r.status = "Continue"
    THEN /\ search_iterator' = r.it
         /\ last' = [op |-> "next", result |-> "Running"]
    ELSE Returned(r)

LoopIteration ==
    /\ Alive /\ ~Idle
    /\ search_iterator.nones < MaxNones
    /\ Iterated(NextManyIteration(DB, search_iterator))
    /\ UNCHANGED <<tables, overflow_checks, raw_origin, lock>>

\* the sequence is dropped between two calls
StepDrop == ~Running /\ Drop

StepNext == LeapInsert \/ LeapSearch \/ LoopIteration \/ StepDrop

StepSpec == Init /\ [][StepNext]_vars

\* a store error in the absent-tag lookup of SearchIterator::next: every
\* cursor is on one object and tag_and_object.get fails for an absent tag
AtLookup(it) ==
    /\ it.strategy = "many" /\ ~it.end
    /\ Len(it.cursors) = Len(it.present_tags_ids)
    /\ AllCoincide(it.cursors)
    /\ it.absent_tags_ids # <<>>

\* `?` returns the error before the first cursor moves and before the end
\* flag is written: the iterator is as the call found it
NextLookupFails ==
    /\ Alive /\ ~Idle
    /\ search_iterator.nones < MaxNones
    /\ AtLookup(search_iterator)
    /\ last' = [op |-> "next", result |-> "Err"]
    /\ UNCHANGED <<tables, overflow_checks, search_iterator, raw_origin, lock>>

\* the loop runs one iteration at a time, and the lookup of an iteration may fail
FaultNext == StepNext \/ NextLookupFails

FaultSpec == Init /\ [][FaultNext]_vars

\* the caller calls next() once more after the sequence has returned its
\* last none
SearchNextLate ==
    /\ Alive /\ ~Idle
    /\ search_iterator.nones = MaxNones
    /\ Returned(next(DB, search_iterator))
    /\ UNCHANGED <<tables, overflow_checks, raw_origin, lock>>

FusedNext == SearchNextStep \/ SearchNextLate

FusedSpec == Init /\ [][FusedNext]_vars

\* the writes of a caller that never lists a tag ID twice in one call
UniqueTagLists == {tags \in TagLists : ~HasRepeat(tags)}

UniqueInsert == InsertOf(ObjectArgs, UniqueTagLists, MaxCount)

UniqueRemoveTagsFromObject ==
    RemoveTagsFromObjectOf(ObjectArgs, UniqueTagLists, MaxCount)

UniqueNext == UniqueInsert \/ RemoveObject \/ UniqueRemoveTagsFromObject

UniqueSpec == Init /\ [][UniqueNext]_vars

----------------------------------------------------------------------------
(* Properties of the tables *)

Postings(t) == {k \in tag_and_object : k[1] = t}

ReversePostings(o) == {k \in object_and_tag : k[1] = o}

\* every ID that occurs in a table
UsedIds ==
    {k[1] : k \in tag_and_object} \cup {k[2] : k \in tag_and_object}
    \cup {k[1] : k \in object_and_tag} \cup {k[2] : k \in object_and_tag}
    \cup DOMAIN id_to_source \cup DOMAIN tag_to_objects_count
    \cup DOMAIN object_to_tags_count

\* C1: (t,o) is in tag_and_object if and only if (o,t) is in object_and_tag.
PostingsSymmetric ==
    /\ \A k \in tag_and_object : <<k[2], k[1]>> \in object_and_tag
    /\ \A k \in object_and_tag : <<k[2], k[1]>> \in tag_and_object

PostingsSymmetricWitness ==
    /\ last = [op |-> "remove_tags_from_object", result |-> "Ok"]
    /\ Cardinality(tag_and_object) = 2
    /\ Cardinality(DOMAIN tag_to_objects_count) = 1

\* C2: for every tag t whose tag_to_objects_count record holds n, exactly n
\* entries of tag_and_object have leading component t.
TagCountExact ==
    \A t \in DOMAIN tag_to_objects_count :
        tag_to_objects_count[t] = Cardinality(Postings(t))

\* C3: the tag_to_objects_count record of t is absent exactly when no object
\* carries t: no record with value zero, and a record for every tag with a
\* posting.
TagCountAbsentIffUnused ==
    /\ \A t \in DOMAIN tag_to_objects_count : tag_to_objects_count[t] # 0
    /\ \A t \in UsedIds : ~Has(tag_to_objects_count, t) <=> Postings(t) = {}

\* C4: for every object o whose object_to_tags_count record holds n, exactly
\* n entries of object_and_tag have leading component o; an object without a
\* record is mentioned by no posting.
ObjectCountExact ==
    /\ \A o \in DOMAIN object_to_tags_count :
          object_to_tags_count[o] = Cardinality(ReversePostings(o))
    /\ \A o \in UsedIds :
          ~Has(object_to_tags_count, o) =>
              /\ ReversePostings(o) = {}
              /\ \A k \in tag_and_object : k[2] # o

\* C5: every ID with an id_to_source record is a known object or an alive
\* tag.
SourceOnlyWhileInUse == \A x \in DOMAIN id_to_source : InUse(DB, x)

\* C6: every ID inserted in raw form and in use ever since (as a known object
\* or as an alive tag) has its id_to_source record, holding the bytes it was
\* inserted with.
RawOriginHasSource ==
    \A x \in raw_origin :
        \E raw \in Raws : xxh3_128(raw) = x /\ get_source(DB, x) = {Raw(raw)}

----------------------------------------------------------------------------
(* Properties of search *)

\* the sequence has been consumed to its first none
Consumed == search_iterator.nones >= 1

NoStartAfter == search_iterator.start_after_object = None

Present == SeqToSet(search_iterator.present_tags_ids)

Absent == SeqToSet(search_iterator.absent_tags)

Yielded == SeqToSet(search_iterator.yielded)

Carries(o, tag_ids) == \A t \in tag_ids : <<t, o>> \in tag_and_object

CarriesNone(o, tag_ids) == \A t \in tag_ids : <<t, o>> \notin tag_and_object

\* C7: two or more present tags, no absent tags, no start_after: the sequence
\* consumed to the end yields exactly the objects that carry every present
\* tag.
IntersectionExact ==
    (/\ search_iterator.strategy = "many"
     /\ Absent = {} /\ NoStartAfter /\ Consumed)
    => Yielded = {o \in UsedIds : Carries(o, Present)}

IntersectionExactWitness ==
    /\ search_iterator.strategy = "many"
    /\ Absent = {} /\ NoStartAfter /\ Consumed
    /\ Cardinality(Present) = 3
    /\ Len(search_iterator.yielded) = 1
    /\ \A t \in Present : Cardinality(Postings(t)) = 2

\* C8: two or more present tags and a non-empty absent list: the sequence
\* consumed to its first none yields exactly the objects that carry every
\* present tag and no absent tag.
FilteredIntersectionExact ==
    (/\ search_iterator.strategy = "many"
     /\ Absent # {} /\ NoStartAfter /\ Consumed)
    => Yielded = {o \in UsedIds : Carries(o, Present) /\ CarriesNone(o, Absent)}

\* C9: one present tag t and any absent list: the sequence yields exactly
\* the objects that carry t and no absent tag.
SingleTagExact ==
    (search_iterator.strategy = "one" /\ NoStartAfter /\ Consumed)
    => Yielded = {o \in UsedIds : Carries(o, Present) /\ CarriesNone(o, Absent)}

\* C10: no present tag: the sequence yields exactly the known objects that
\* carry no absent tag.
AllObjectsExact ==
    (search_iterator.strategy = "all" /\ NoStartAfter /\ Consumed)
    => Yielded = {o \in DOMAIN object_to_tags_count : CarriesNone(o, Absent)}

\* the arguments of the search held by the caller, as identified tags
PresentArgs ==
    [j \in 1 .. Len(search_iterator.present_tags_ids) |->
        Identified(search_iterator.present_tags_ids[j])]

AbsentArgs ==
    [j \in 1 .. Len(search_iterator.absent_tags) |->
        Identified(search_iterator.absent_tags[j])]

\* C11: for every ID k, search(P, A, Some(k)) yields exactly the results of
\* search(P, A, None) whose ID is greater than k, under the three strategies.
StartAfterExact ==
    (~Idle /\ ~NoStartAfter /\ Consumed)
    => Yielded = {o \in SeqToSet(Collect(DB, search(DB, PresentArgs, AbsentArgs, None))) :
                    o > search_iterator.start_after_object[1]}

\* what resuming after the i-th yielded ID returns
Resumed(i) ==
    Collect(DB, search(DB, PresentArgs, AbsentArgs, Some(search_iterator.yielded[i])))

\* C12: when search(P, A, s) yields r1, ..., rm, the call
\* search(P, A, Some(r_i)) yields exactly r_{i+1}, ..., rm, for every i.
PaginationLossless ==
    (~Idle /\ Consumed)
    => \A i \in 1 .. Len(search_iterator.yielded) :
          Resumed(i) = SubSeq(search_iterator.yielded, i + 1,
                              Len(search_iterator.yielded))

PaginationLosslessWitness ==
    /\ search_iterator.strategy = "many"
    /\ Consumed
    /\ Len(search_iterator.yielded) = 2
    /\ Resumed(1) = <<search_iterator.yielded[2]>>
    /\ Resumed(2) = <<>>

\* everything the sequence returned, in the order of the calls
Returns == search_iterator.yielded \o search_iterator.late

\* C13: the IDs yielded by one search are strictly increasing, so no ID is
\* yielded twice.
YieldedIncreasing ==
    \A i, j \in 1 .. Len(Returns) : i < j => Returns[i] < Returns[j]

YieldedIncreasingWitness ==
    /\ search_iterator.strategy = "many"
    /\ search_iterator.present_tags_ids[1] = search_iterator.present_tags_ids[2]
    /\ Len(search_iterator.yielded) = 2
    /\ Consumed

----------------------------------------------------------------------------
(* Properties of the write operations, for every reachable state of the
   tables and every argument *)

TagIdsIn(tags) == {get_id(tags[j]) : j \in 1 .. Len(tags)}

\* the tags of an object as a set of IDs
TagSet(db, object) == SeqToSet(get_tags(db, object))

\* no posting has the ID as its object component
Unposted(db, object_id) ==
    /\ \A k \in db.tag_and_object : k[2] # object_id
    /\ \A k \in db.object_and_tag : k[1] # object_id

DedupAppend(front, tag) ==
    IF \E j \in 1 .. Len(front) : get_id(front[j]) = get_id(tag)
    THEN front ELSE Append(front, tag)

\* the list without the entries whose ID an earlier entry has
RECURSIVE Dedup(_)
Dedup(tags) ==
    IF tags = <<>> THEN <<>>
    ELSE DedupAppend(Dedup(SubSeq(tags, 1, Len(tags) - 1)), tags[Len(tags)])

\* C14: insert(o, T) with T listing a tag ID more than once leaves the five
\* tables as insert(o, T') does, T' being T without the duplicates.
InsertDedupEqual ==
    \A object \in ObjectArgs, tags \in TagLists :
        insert(DB, object, tags) = insert(DB, object, Dedup(tags))

\* the second of two equal insert calls changed neither the counts nor the
\* postings, and the object carries the tags of the list
SecondInsertNoOp(first, second, object, tags, fresh) ==
    first.result = "Ok" =>
        /\ second.result = "Ok"
        /\ second.db.tag_to_objects_count = first.db.tag_to_objects_count
        /\ second.db.object_to_tags_count = first.db.object_to_tags_count
        /\ second.db.tag_and_object = first.db.tag_and_object
        /\ second.db.object_and_tag = first.db.object_and_tag
        /\ TagIdsIn(tags) \subseteq TagSet(second.db, object)
        /\ fresh => TagSet(second.db, object) = TagIdsIn(tags)

InsertTwice(first, object, tags, fresh) ==
    SecondInsertNoOp(first, insert(first.db, object, tags), object, tags, fresh)

\* C15: insert(o, T) run a second time right after insert(o, T) leaves every
\* count and both posting tables unchanged, and get_tags(o) holds the IDs of
\* T (exactly those when o had no tag before).
InsertIdempotent ==
    \A object \in ObjectArgs, tags \in TagLists :
        InsertTwice(insert(DB, object, tags), object, tags,
                    TagSet(DB, object) = {})

\* get_tags(o) after insert(o, T) on an object whose tags were E
InsertedTags(r, object, tags, E) ==
    r.result = "Ok" =>
        /\ get_tags(r.db, object) = SortedSeq(E \cup TagIdsIn(tags))
        /\ \A j \in 1 .. Len(tags) : has_tag(r.db, object, tags[j])

\* C16 (first part): after insert(o, T) on an object whose tag set was E,
\* get_tags(o) returns the IDs of E and T in ascending order without
\* repetition and has_tag(o, t) is true for every t of T.
InsertTagsUnion ==
    \A object \in ObjectArgs, tags \in TagLists :
        InsertedTags(insert(DB, object, tags), object, tags, TagSet(DB, object))

InsertedTagsOfUnknown(r, object, tags) ==
    r.result = "Ok" => get_tags(r.db, object) = SortedSeq(TagIdsIn(tags))

\* C16: as above, and for an object that was unknown (no
\* object_to_tags_count record) get_tags(o) equals the IDs of T.
InsertTagsExact ==
    /\ InsertTagsUnion
    /\ \A object \in ObjectArgs, tags \in TagLists :
          ~Known(DB, get_id(object)) =>
              InsertedTagsOfUnknown(insert(DB, object, tags), object, tags)

\* the object is unknown again: no count record, no posting, no source
ObjectErased(r, object) ==
    /\ r.result = "Ok"
    /\ ~Known(r.db, get_id(object))
    /\ Unposted(r.db, get_id(object))
    /\ object.kind = "Raw" => get_source(r.db, get_id(object)) = {}

InsertThenRemoveTags(first, object, tags) ==
    first.result = "Ok" =>
        ObjectErased(remove_tags_from_object(first.db, object, tags), object)

\* C17: for an unknown object o, insert(o, T) followed by
\* remove_tags_from_object(o, T) leaves o unknown: no count record, no
\* posting of o, and no id_to_source record when o is raw.
InsertRemoveTagsErases ==
    \A object \in ObjectArgs, tags \in TagLists :
        (~Known(DB, get_id(object)) /\ Unposted(DB, get_id(object))) =>
            InsertThenRemoveTags(insert(DB, object, tags), object, tags)

\* no search yields the ID
NeverYielded(db, object_id) ==
    \A present_tags \in PresentLists, absent_tags \in AbsentLists,
       start_after_object \in StartAfters :
        object_id \notin
            SeqToSet(Collect(db, search(db, present_tags, absent_tags,
                                        start_after_object)))

ObjectRemoved(r, object) ==
    r.result = "Ok" =>
        /\ get_tags(r.db, object) = <<>>
        /\ ~Known(r.db, get_id(object))
        /\ Unposted(r.db, get_id(object))
        /\ NeverYielded(r.db, get_id(object))

\* C18: after remove_object(o) on a known object, get_tags(o) is empty, o
\* has no object_to_tags_count record, no posting has o as its object and no
\* search yields o.  (The tables do not change while a sequence is held, so
\* the states without one are all the states of the tables.)
RemoveObjectErases ==
    Idle => \A object \in ObjectArgs :
                Known(DB, get_id(object)) =>
                    ObjectRemoved(remove_object(DB, object), object)

RemoveObjectErasesWitness ==
    /\ last = [op |-> "remove_object", result |-> "Ok"]
    /\ \E t \in DOMAIN tag_to_objects_count : tag_to_objects_count[t] = 0
    /\ \E o \in ObjectIds : ~Known(DB, o) /\ Unposted(DB, o)
    /\ tag_and_object # {}

\* the tags of the object as a list of identified tags
IdentifiedTags(tag_ids) == [j \in 1 .. Len(tag_ids) |-> Identified(tag_ids[j])]

\* C19: for every known object o with tag set E, remove_object(o) leaves the
\* five tables as remove_tags_from_object(o, E) does.
RemoveObjectAsRemoveTags ==
    \A object \in ObjectArgs :
        Known(DB, get_id(object)) =>
            remove_object(DB, object) =
                remove_tags_from_object(DB, object,
                                        IdentifiedTags(get_tags(DB, object)))

\* the count of a removed tag is one less, and erased when that is zero
TagCountDecremented(db, r, t) ==
    /\ Has(db.tag_to_objects_count, t)
    /\ IF db.tag_to_objects_count[t] = 1
       THEN ~Has(r.db.tag_to_objects_count, t)
       ELSE /\ Has(r.db.tag_to_objects_count, t)
            /\ r.db.tag_to_objects_count[t] = db.tag_to_objects_count[t] - 1

TagsRemoved(db, r, object, E, T) ==
    /\ r.result = "Ok"
    /\ TagSet(r.db, object) = E \ T
    /\ \A t \in E \cap T : TagCountDecremented(db, r, t)
    /\ \A t \in DOMAIN db.tag_to_objects_count \ (E \cap T) :
          /\ Has(r.db.tag_to_objects_count, t)
          /\ r.db.tag_to_objects_count[t] = db.tag_to_objects_count[t]
    /\ (E \ T) # {} =>
          /\ Known(r.db, get_id(object))
          /\ r.db.object_to_tags_count[get_id(object)] = Cardinality(E \ T)

\* C20: remove_tags_from_object(o, T) on a known object with tag set E
\* leaves o with the tags E minus T, each removed tag's count one less (the
\* record erased at zero, the other counts as they were), and
\* object_to_tags_count[o] equal to the number of remaining tags when some
\* tag remains.
RemoveTagsExact ==
    \A object \in ObjectArgs, tags \in TagLists :
        Known(DB, get_id(object)) =>
            TagsRemoved(DB, remove_tags_from_object(DB, object, tags), object,
                        TagSet(DB, object), TagIdsIn(tags))

----------------------------------------------------------------------------
(* Properties of the early returns, the read primitives and the executor *)

NoOp(db, r) == r = [db |-> db, result |-> "Ok"]

\* C21: remove_object(o) and remove_tags_from_object(o, T) on an object
\* without an object_to_tags_count record return success and leave the five
\* tables as they were.
RemoveUnknownNoOp ==
    \A object \in ObjectArgs :
        ~Known(DB, get_id(object)) =>
            /\ NoOp(DB, remove_object(DB, object))
            /\ \A tags \in TagLists :
                  NoOp(DB, remove_tags_from_object(DB, object, tags))

\* a removal has run while a raw object without a count record has its ID
\* stored as a tag's source and carried as a tag
RemoveUnknownNoOpWitness ==
    /\ last.op \in {"remove_object", "remove_tags_from_object"}
    /\ last.result = "Ok"
    /\ \E object \in ObjectArgs :
          /\ object.kind = "Raw"
          /\ ~Known(DB, get_id(object))
          /\ Has(id_to_source, get_id(object))
          /\ Postings(get_id(object)) # {}

\* a tag the object carries has no tag_to_objects_count record
CountRecordMissing(db, object) ==
    \E t \in TagSet(db, object) : ~Has(db.tag_to_objects_count, t)

\* C24 (first part): in every state reachable from the empty index no call
\* of remove_tags_from_object fails with the missing tag count record error.
MissingCountNeverMet ==
    \A object \in ObjectArgs, tags \in TagLists :
        remove_tags_from_object(DB, object, tags).result # "Err"

\* C24 (second part): a decrement of remove_object that finds the tag count
\* record missing makes the call return the error instead of writing a count.
MissingCountIsError ==
    \A object \in ObjectArgs :
        (Known(DB, get_id(object)) /\ CountRecordMissing(DB, object)) =>
            remove_object(DB, object).result = "Err"

\* C24: the missing tag count record error is met in no state reachable from
\* the empty index, and a decrement that finds the record missing returns
\* that error in either removal path.
MissingCountSurfaced == MissingCountNeverMet /\ MissingCountIsError

\* a present tag of the held search has no posting
SomePresentUncarried == \E p \in Present : Postings(p) = {}

\* C25: when some present tag is carried by no object (its count record
\* missing or zero), the search yields no ID, with one present tag and with
\* two or more.
UncarriedPresentYieldsNothing ==
    (search_iterator.strategy \in {"one", "many"} /\ SomePresentUncarried)
    => Returns = <<>>

\* a search of two present tags, one with postings and one left with a zero
\* count record, has been consumed
UncarriedPresentYieldsNothingWitness ==
    /\ search_iterator.strategy = "many"
    /\ Consumed
    /\ \E p \in Present : Postings(p) # {}
    /\ \E p \in Present :
          /\ Postings(p) = {}
          /\ Has(tag_to_objects_count, p)
          /\ tag_to_objects_count[p] = 0

\* the absent tags the planner omits are carried by no object
DroppedAbsentUncarried(db, absent_tags) ==
    \A j \in 1 .. Len(absent_tags) :
        ~Has(db.tag_to_objects_count, get_id(absent_tags[j])) =>
            \A k \in db.tag_and_object : k[1] # get_id(absent_tags[j])

\* with every absent tag omitted, the search yields what it yields without
\* absent tags
AllDroppedAsNoFilter(db, absent_tags) ==
    PlanAbsent(db, absent_tags) = <<>> =>
        \A present_tags \in PresentLists, start_after_object \in StartAfters :
            Collect(db, search(db, present_tags, absent_tags, start_after_object))
                = Collect(db, search(db, present_tags, <<>>, start_after_object))

\* C26: in every reachable state the planner omits an absent tag only if no
\* object carries it, so a search whose absent tags are all omitted yields
\* the IDs of the search without absent tags.
DroppedAbsentChangesNothing ==
    \A absent_tags \in AbsentLists :
        /\ DroppedAbsentUncarried(DB, absent_tags)
        /\ AllDroppedAsNoFilter(DB, absent_tags)

\* C27: has_object_with_tag(t) is true exactly when some object carries t,
\* and exactly when t is alive (its tag_to_objects_count record is present
\* and nonzero).
HasObjectWithTagIffAlive ==
    \A tag \in TagArgs :
        /\ has_object_with_tag(DB, tag) <=> Postings(get_id(tag)) # {}
        /\ has_object_with_tag(DB, tag) <=> AliveTag(DB, get_id(tag))

\* the call returned in this step
CallReturned == last'.op = "next" /\ last'.result # "Running"

\* a cursor was instantiated, or an instantiated cursor moved forward
CursorAdvanced ==
    \/ Len(search_iterator'.cursors) > Len(search_iterator.cursors)
    \/ \E j \in 1 .. Len(search_iterator.cursors) :
          /\ search_iterator.cursors[j].current_value # None
          /\ \/ search_iterator'.cursors[j].current_value = None
             \/ KeyLess(search_iterator.cursors[j].current_value[1],
                        search_iterator'.cursors[j].current_value[1])

\* only the index pair changed
PairTurned ==
    /\ search_iterator'.cursors = search_iterator.cursors
    /\ <<search_iterator'.index_1, search_iterator'.index_2>>
          # <<search_iterator.index_1, search_iterator.index_2>>

\* the cursors and the index pair are as they were
Unmoved(it, r) ==
    /\ r.status = "Continue"
    /\ r.it.cursors = it.cursors

\* the call returns within the given number of iterations
RECURSIVE ReturnsWithin(_, _, _)
ReturnedOrWithin(db, r, iterations) ==
    r.status # "Continue" \/ ReturnsWithin(db, r.it, iterations - 1)

ReturnsWithin(db, it, iterations) ==
    iterations > 0 /\ ReturnedOrWithin(db, NextManyIteration(db, it), iterations)

\* within the given number of iterations the call returns or touches a
\* cursor
RECURSIVE MovesWithin(_, _, _)
MovedOrWithin(db, it, r, iterations) ==
    ~Unmoved(it, r) \/ MovesWithin(db, r.it, iterations - 1)

MovesWithin(db, it, iterations) ==
    iterations > 0 /\ MovedOrWithin(db, it, NextManyIteration(db, it), iterations)

\* every cursor can be instantiated once and step through the table once,
\* with a turn of the index pair around each of these
IterationBudget(db, it) ==
    (Len(it.present_tags_ids) * (Cardinality(db.tag_and_object) + 2) + 1)
        * (2 * Len(it.present_tags_ids))

HeldMany == search_iterator.strategy = "many" /\ search_iterator.nones < MaxNones

\* every call of next() returns
NextTerminates ==
    HeldMany => ReturnsWithin(DB, search_iterator,
                              IterationBudget(DB, search_iterator))

\* C28 as stated: every call of next() terminates, each iteration of its
\* loop returning or strictly advancing some cursor.
NextTerminatesByAdvancing ==
    /\ []NextTerminates
    /\ [][LoopIteration => (CallReturned \/ CursorAdvanced)]_vars

\* at most 2n - 1 iterations in a row leave every cursor where it is
TurnsBounded ==
    HeldMany => MovesWithin(DB, search_iterator,
                            2 * Len(search_iterator.present_tags_ids))

\* C28 (amended): every call of next() terminates; each iteration of its
\* loop returns, strictly advances or instantiates a cursor, or only turns
\* the index pair (a rotation after agreement, or the reset to the first
\* pair) without touching a cursor, which at most 2n - 1 iterations in a
\* row do.
NextTerminatesByAdvancingOrTurning ==
    /\ [](NextTerminates /\ TurnsBounded)
    /\ [][LoopIteration => (CallReturned \/ CursorAdvanced \/ PairTurned)]_vars

\* a call on three present tags, two of them the same, is inside its loop
\* with every cursor instantiated and the index pair rotated
NextTerminatesByAdvancingOrTurningWitness ==
    /\ Running
    /\ Len(search_iterator.present_tags_ids) = 3
    /\ Cardinality(Present) = 2
    /\ Len(search_iterator.cursors) = 3
    /\ search_iterator.index_1 # 0
    /\ search_iterator.yielded # <<>>

\* the ID carries every present tag and no absent tag that has a count
\* record, and lies after start_after_object
SoundResult(x) ==
    /\ Carries(x, Present)
    /\ \A a \in Absent :
          Has(tag_to_objects_count, a) => <<a, x>> \notin tag_and_object
    /\ ~NoStartAfter => x > search_iterator.start_after_object[1]

\* the last call of next() yielded an ID
JustYielded ==
    /\ last = [op |-> "next", result |-> "Ok"]
    /\ search_iterator.nones = 0
    /\ search_iterator.yielded # <<>>

\* the cursors left by the emission of x: all instantiated, the first one
\* step past its posting of x, the others inside their prefix on x
EmittedOnCoincidence(it, x) ==
    /\ Len(it.cursors) = Len(it.present_tags_ids)
    /\ <<it.present_tags_ids[1], x>> \in tag_and_object
    /\ it.cursors[1] =
          CursorAt(PairIterNext(tag_and_object,
                                [lo |-> <<it.present_tags_ids[1], x>>,
                                 incl |-> FALSE]))
    /\ \A j \in 2 .. Len(it.cursors) :
          /\ InPrefix(it.cursors[j], it.present_tags_ids[j])
          /\ it.cursors[j].current_value[1][2] = x

\* C29: every ID yielded by a search, under each strategy, carries every
\* present tag, carries no absent tag that has a count record and is greater
\* than start_after; with two or more present tags it is emitted only with
\* all n cursors instantiated, inside their prefix and on that object.
YieldedSound ==
    /\ \A x \in SeqToSet(Returns) : SoundResult(x)
    /\ (search_iterator.strategy = "many" /\ JustYielded) =>
          EmittedOnCoincidence(search_iterator,
                               search_iterator.yielded[Len(search_iterator.yielded)])

\* a search of two present tags with a start_after and an absent tag that
\* has a count record has just yielded an ID, while another object carries
\* the absent tag
YieldedSoundWitness ==
    /\ search_iterator.strategy = "many" /\ JustYielded
    /\ ~NoStartAfter
    /\ \E a \in Absent : Has(tag_to_objects_count, a) /\ Postings(a) # {}

\* the IDs yielded by search([t], [], None)
CarriersFound(db, tag) == SeqToSet(Collect(db, search(db, <<tag>>, <<>>, None)))

\* C30: has_tag(o, t) is true if and only if id(t) is among get_tags(o), if
\* and only if id(o) is yielded by search([t], [], None).
ReadPrimitivesAgree ==
    \A object \in Objects, tag \in Objects :
        /\ has_tag(DB, object, tag) <=> get_id(tag) \in TagSet(DB, object)
        /\ has_tag(DB, object, tag) <=> get_id(object) \in CarriersFound(DB, tag)

\* after a removal of tags an object has one tag by the three primitives and
\* lacks another tag that some other object still carries
ReadPrimitivesAgreeWitness ==
    /\ last = [op |-> "remove_tags_from_object", result |-> "Ok"]
    /\ \E object \in ObjectArgs, tag \in TagArgs, other \in TagArgs :
          /\ has_tag(DB, object, tag)
          /\ get_id(tag) \in TagSet(DB, object)
          /\ get_id(object) \in CarriersFound(DB, tag)
          /\ ~has_tag(DB, object, other)
          /\ CarriersFound(DB, other) # {}

\* C23: no write-transaction body executes while another write body or a
\* read body executes on the index; read bodies may execute together.
ReadersWritersExclusive ==
    /\ lock.writers <= 1
    /\ lock.writers = 1 => lock.readers = 0

\* two read bodies execute at once on tables a write body has filled
ReadersWritersExclusiveWitness ==
    /\ lock.readers = 2
    /\ lock.writers = 0
    /\ tag_and_object # {}

----------------------------------------------------------------------------
(* Properties of errors, fusing, argument order, arithmetic and frames *)

NextFailed == last = [op |-> "next", result |-> "Err"]

\* C31: a store error during a search step aborts the sequence: the call of
\* next() whose absent-tag lookup fails returns the error without yielding
\* an ID, and no later call of next() on the same sequence yields an ID
ErrorAbortsSequence == NextFailed => Collect(DB, search_iterator) = <<>>

\* C32: the search sequence is fused: once next() has returned none, every
\* later call of next() on the same sequence returns none, for the three
\* strategies; with two or more present tags a none is returned only after
\* the end flag is set
SequenceFused ==
    /\ search_iterator.late = <<>>
    /\ (search_iterator.strategy = "many" /\ search_iterator.nones > 0)
           => search_iterator.end

\* the lists with the entries of s in another order
Reordered(s) ==
    {[j \in 1 .. Len(s) |-> s[p[j]]] : p \in Permutations(1 .. Len(s))}

\* C33: for fixed tables and a fixed start_after the set of IDs yielded by
\* search(P, A, start_after) is the same for every order of the tags in P
\* and in A, whichever present tag the planner puts first when counts tie
OrderIndependent ==
    (~Idle /\ Consumed)
    => \A P \in Reordered(PresentArgs), A \in Reordered(AbsentArgs) :
          SeqToSet(Collect(DB, search(DB, P, A,
                                      search_iterator.start_after_object)))
              = Yielded

\* a count that the call left at or above 2^31 and that was below before
Wrapped(before, after) ==
    \E k \in DOMAIN after :
        after[k] < 0 /\ (Has(before, k) => before[k] >= 0)

\* a subtraction of the call went below zero: the call panicked, or it
\* wrote the wrapped difference
Underflowed(db, r) ==
    \/ r.result = "Panic"
    \/ Wrapped(db.tag_to_objects_count, r.db.tag_to_objects_count)
    \/ Wrapped(db.object_to_tags_count, r.db.object_to_tags_count)

\* C34: no u32 subtraction of the write path underflows, in any reachable
\* state and for any arguments: the decrements of a tag's count in
\* remove_object and remove_tags_from_object, and |E| - removed in
\* remove_tags_from_object, also when the tag list repeats a tag
NoUnderflow ==
    \A object \in ObjectArgs :
        /\ ~Underflowed(DB, remove_object(DB, object))
        /\ \A tags \in TagLists :
              ~Underflowed(DB, remove_tags_from_object(DB, object, tags))

\* the cursors are those of the planned tags 0, 1, ... in this order, and
\* the index pair names instantiated cursors or the one to create next
CursorsInOrder(it) ==
    /\ Len(it.cursors) <= Len(it.present_tags_ids)
    /\ it.index_1 < Len(it.present_tags_ids)
    /\ it.index_2 < Len(it.present_tags_ids)
    /\ Len(it.cursors) < Len(it.present_tags_ids)
          => \/ it.cursors = <<>> /\ it.index_1 = 0 /\ it.index_2 = 1
             \/ it.index_1 < Len(it.cursors) /\ it.index_2 <= Len(it.cursors)

\* every cursor has a current value inside the prefix of its own tag
CursorsInPrefix(it) ==
    \A j \in 1 .. Len(it.cursors) : InPrefix(it.cursors[j], it.present_tags_ids[j])

\* what an iteration of the loop finds when it starts
CursorsReadable ==
    search_iterator.strategy = "many"
    => /\ last.result # "Panic"
       /\ CursorsInOrder(search_iterator)
       /\ ~search_iterator.end => CursorsInPrefix(search_iterator)

\* cursors are only pushed, at the end of the list, and the planned tags
\* stay as they are
CursorsPushedInOrder ==
    /\ search_iterator'.present_tags_ids = search_iterator.present_tags_ids
    /\ Len(search_iterator'.cursors) >= Len(search_iterator.cursors)

\* the object a cursor is on is not below the one it was on
CursorsNeverBack ==
    \A j \in 1 .. Len(search_iterator.cursors) :
        (/\ search_iterator.cursors[j].current_value # None
         /\ search_iterator'.cursors[j].current_value # None)
        => search_iterator.cursors[j].current_value[1][2]
              <= search_iterator'.cursors[j].current_value[1][2]

\* C35 as stated: in SearchIterator::next no exhausted cursor is
\* dereferenced and no index is out of range: the cursors read exist, have
\* a current value and are inside their own tag's prefix; cursors are
\* created in the order 0, 1, ..., n-1 with no gap; the object component of
\* every cursor never decreases.
CursorsSafe ==
    /\ []CursorsReadable
    /\ [][LoopIteration => (CursorsPushedInOrder /\ CursorsNeverBack)]_vars

\* the object a cursor is on inside its tag's prefix is not below the one
\* it was on
CursorsNeverBackInPrefix ==
    \A j \in 1 .. Len(search_iterator.cursors) :
        (/\ search_iterator.cursors[j].current_value # None
         /\ InPrefix(search_iterator'.cursors[j],
                     search_iterator.present_tags_ids[j]))
        => search_iterator.cursors[j].current_value[1][2]
              <= search_iterator'.cursors[j].current_value[1][2]

\* C35 (amended): as C35, with the object component of a cursor never
\* decreasing while the cursor stays inside its own tag's prefix (the step
\* that takes a cursor out of its prefix may land on a lower object of
\* another tag; the end flag is set and the cursor is not read again).
CursorsSafeInPrefix ==
    /\ []CursorsReadable
    /\ [][LoopIteration => (CursorsPushedInOrder /\ CursorsNeverBackInPrefix)]_vars

\* a call on three different present tags is inside its loop with the three
\* cursors instantiated on one object, after the sequence yielded an ID
CursorsSafeInPrefixWitness ==
    /\ Running
    /\ ~search_iterator.end
    /\ Cardinality(Present) = 3
    /\ Len(search_iterator.cursors) = 3
    /\ AllCoincide(search_iterator.cursors)
    /\ search_iterator.yielded # <<>>

\* the record of a key, or none
Record(table, key) == IF Has(table, key) THEN Some(table[key]) ELSE None

\* the posting entries of an object in the two posting tables
PostingsOf(db, x) ==
    <<{k \in db.tag_and_object : k[2] = x}, {k \in db.object_and_tag : k[1] = x}>>

\* the call that left r on db wrote nothing of another object, and no count
\* of a tag it neither added to nor removed from the object
OnlyTouched(db, r, object) ==
    /\ \A x \in Ids \ {get_id(object)} :
          /\ TagSet(r.db, Identified(x)) = TagSet(db, Identified(x))
          /\ Record(r.db.object_to_tags_count, x) = Record(db.object_to_tags_count, x)
          /\ PostingsOf(r.db, x) = PostingsOf(db, x)
    /\ \A t \in Ids :
          (t \in TagSet(r.db, object) <=> t \in TagSet(db, object))
          => Record(r.db.tag_to_objects_count, t) = Record(db.tag_to_objects_count, t)

\* C36: insert(o, T), remove_object(o) and remove_tags_from_object(o, T)
\* leave unchanged the tag set, the object_to_tags_count record and the
\* posting entries of every object other than id(o), and the
\* tag_to_objects_count of every tag the call neither adds to nor removes
\* from o
WritesTouchOnlyObject ==
    \A object \in ObjectArgs :
        /\ OnlyTouched(DB, remove_object(DB, object), object)
        /\ \A tags \in TagLists :
              /\ OnlyTouched(DB, insert(DB, object, tags), object)
              /\ OnlyTouched(DB, remove_tags_from_object(DB, object, tags), object)

\* the three calls change the tables while another object carries the tag
\* they add or remove
WritesTouchOnlyObjectWitness ==
    \E object \in ObjectArgs, tags \in TagLists, x \in ObjectIds :
        /\ x # get_id(object)
        /\ TagIdsIn(tags) \subseteq TagSet(DB, Identified(x))
        /\ tags # <<>>
        /\ Has(object_to_tags_count, x)
        /\ remove_tags_from_object(DB, object, tags).db # DB
        /\ remove_tags_from_object(DB, object, tags).result = "Ok"
        /\ remove_object(DB, object).db # DB
        /\ remove_object(DB, Identified(x)).db # DB
        /\ \E more \in TagLists :
              /\ insert(DB, object, more).db # DB
              /\ TagIdsIn(more) \cap TagSet(DB, Identified(x)) # {}

\* C37: when no tag list passed to insert or remove_tags_from_object holds
\* two entries with the same ID, both count tables are exact after any
\* sequence of writes: the count record of every tag with postings is the
\* number of objects carrying it, the count record of every known object is
\* the number of its tags, and no object has postings without a count
\* record
CountsExactWithoutRepeats ==
    /\ \A t \in UsedIds :
          Postings(t) # {}
          => /\ Has(tag_to_objects_count, t)
             /\ tag_to_objects_count[t] = Cardinality(Postings(t))
    /\ \A o \in DOMAIN object_to_tags_count :
          object_to_tags_count[o] = Cardinality(ReversePostings(o))
    /\ \A o \in UsedIds :
          (ReversePostings(o) # {} \/ \E k \in tag_and_object : k[2] = o)
          => Has(object_to_tags_count, o)

\* remove_tags_from_object has left an object with one tag of two, a tag is
\* carried by two objects, and a known object has no tag
CountsExactWithoutRepeatsWitness ==
    /\ last = [op |-> "remove_tags_from_object", result |-> "Ok"]
    /\ \E t \in TagIds : Cardinality(Postings(t)) = 2
    /\ \E o \in ObjectIds :
          Has(object_to_tags_count, o) /\ object_to_tags_count[o] = 1
    /\ \E t \in TagIds : Has(tag_to_objects_count, t) /\ Postings(t) = {}

\* C38: for a known object o, remove_tags_from_object(o, T) with T listing
\* a tag ID more than once succeeds and leaves the five tables as the call
\* with T deduplicated leaves them
RemoveTagsDedupEqual ==
    \A object \in ObjectArgs, tags \in TagLists :
        (Known(DB, get_id(object)) /\ HasRepeat(tags))
        => /\ remove_tags_from_object(DB, object, tags).result = "Ok"
           /\ remove_tags_from_object(DB, object, tags)
                 = remove_tags_from_object(DB, object, Dedup(tags))

====
